---- MODULE Spec2Model ----
(***************************************************************************)
(* Model of src/pubnub.rs: the HTTP response reader (http_response), the   *)
(* subscribe client (SubscribeClient::new / next_message / subscribe) and  *)
(* the publish client (PublishClient::new / publish).                      *)
(*                                                                         *)
(* The socket (crate::socket::Socket) and the JSON decoder are the         *)
(* environment: every write, line read and body read may fail, the lines   *)
(* and the document on the wire are chosen by the environment.             *)
(*                                                                         *)
(* The history variables are windows: the last two writes, the responses   *)
(* read since the last write, the last result returned, the messages       *)
(* returned since the last envelope, the socket operations of the running  *)
(* invocation.  A statement about every pair of consecutive polls is an    *)
(* invariant about the last two.  Two histories are differences rather     *)
(* than windows: owed (decoded minus returned, per message) and            *)
(* outstanding (polls written minus responses decoded).                    *)
(***************************************************************************)
EXTENDS Integers, Sequences, FiniteSets, TLC

\* ------------------------------------------------------------------ bounds
\* messages carried by one subscribe envelope
MaxMsgs == 2
\* header lines the service sends before the blank line
MaxLines == 2

\* ------------------------------------------------------------------ values
Channels == {"", "demo"}
Cursors == {"15", "16"}
SubscribeAgent == "PubNub-Subscribe-Client"
PublishAgent == "PubNub-Publish-Client"
Key == "demo"

\* one entry of the envelope's message list "m": {c: channel, d: data, p: {t: id}}
EnvMsg(i, cur) ==
    [c |-> "demo", d |-> IF i % 2 = 1 THEN "a" ELSE "b", p |-> cur]

\* JSON documents the service may put on the wire: subscribe envelopes
\* {t: {t: cursor}, m: [...]} and publish answers [status, text, cursor]
\* (one of them undersized).
Envelopes ==
    { [kind |-> "object", t |-> cur, m |-> [i \in 1..k |-> EnvMsg(i, cur)], a |-> <<>>] :
        cur \in Cursors, k \in 0..MaxMsgs }
Arrays ==
    { [kind |-> "array", t |-> "", m |-> <<>>, a |-> <<"1", "Sent", "17">>],
      [kind |-> "array", t |-> "", m |-> <<>>, a |-> <<"1">>] }
Docs == Envelopes \cup Arrays
NullJson == [kind |-> "null", t |-> "", m |-> <<>>, a |-> <<>>]

\* the bytes of a document as they travel: one token per syntactic unit
Tok(s) == [sym |-> s]
Encode(doc) ==
    IF doc.kind = "object"
    THEN <<Tok("{"), Tok(doc.t)>> \o doc.m \o <<Tok("}")>>
    ELSE <<Tok("[")>> \o [i \in 1..Len(doc.a) |-> Tok(doc.a[i])] \o <<Tok("]")>>

\* json::parse: a complete document decodes, anything else (the empty input,
\* a truncated document) is an error
JsonParse(bytes) ==
    IF \E doc \in Docs : Encode(doc) = bytes
    THEN [ok |-> TRUE, json |-> CHOOSE doc \in Docs : Encode(doc) = bytes]
    ELSE [ok |-> FALSE, json |-> NullJson]

\* response["t"]["t"].to_string(): a missing member indexes to Null, and
\* Null prints as "null"
TimeField(json) == IF json.kind = "object" THEN json.t ELSE "null"
\* response["m"].members(): empty unless "m" is an array
Members(json) == IF json.kind = "object" THEN json.m ELSE <<>>
\* response[2].to_string()
Index2(json) ==
    IF json.kind = "array" /\ Len(json.a) >= 3 THEN json.a[3] ELSE "null"

\* Message built from one envelope entry
ToMessage(em) ==
    [channel |-> em.c, data |-> em.d, metadata |-> "TODO metadata", id |-> em.p]
NoMessage == [channel |-> "", data |-> "", metadata |-> "", id |-> ""]

\* ------------------------------------------------------------------ lines
\* A line as socket.readln returns it: its length, whether it contains
\* "Content-Length", and its second whitespace-separated token
\* ("" when there is none).
\* The second token is either absent, a word that is no number, or a numeral
\* (n is the number it denotes).
NoToken == [txt |-> "", n |-> 0]
WordToken == [txt |-> "abc", n |-> 0]
Numeral(n) == [txt |-> "digits", n |-> n]
BodyLengths == {0} \cup 3..(MaxMsgs + 3)
BlankLine == [len |-> 2, hasCL |-> FALSE, tok |-> NoToken]
OtherLine == [len |-> 17, hasCL |-> FALSE, tok |-> WordToken]
LengthLine(t) == [len |-> 19, hasCL |-> TRUE, tok |-> t]
LengthToks == {NoToken, WordToken} \cup { Numeral(n) : n \in BodyLengths }
Lines == {BlankLine, OtherLine} \cup { LengthLine(t) : t \in LengthToks }

\* data.contains("Content-Length")
Contains(data) == data.hasCL
\* data.split_whitespace().nth(1)
Nth1(data) ==
    IF data.tok = NoToken THEN [some |-> FALSE, tok |-> NoToken]
    ELSE [some |-> TRUE, tok |-> data.tok]
\* str::parse::<usize>
ParseUsize(t) ==
    IF t.txt = "digits" THEN [ok |-> TRUE, n |-> t.n] ELSE [ok |-> FALSE, n |-> 0]

\* ------------------------------------------------------------------ state
VARIABLES
    mode,         \* which client the behaviour drives: "sub" or "pub"
    pc,           \* position of the caller / of the running operation
    channel,      \* SubscribeClient.channel
    messages,     \* SubscribeClient.messages
    timetoken,    \* SubscribeClient.timetoken
    body_length,  \* http_response's local
    lines,        \* the lines the running http_response call has read
    hres,         \* what http_response returned to its caller
    sent,         \* history: the last two socket.write calls, oldest first
    answer,       \* history: the outcomes of http_response since the last write
    ret,          \* history: what the last operation returned to the caller
    yielded,      \* history: the messages returned since the last envelope
    io,           \* history: the socket operations of the running invocation
    owed,         \* history: per message, times decoded minus times returned
    outstanding,  \* history: polls written minus responses decoded, counted
                  \* until a next_message call returns an error
    failed        \* history: a next_message call has returned an error

vars == <<mode, pc, channel, messages, timetoken, body_length, lines, hres,
          sent, answer, ret, yielded, io, owed, outstanding, failed>>

\* http_response's results: Ok(json) and Err(Error::HTTPResponse); NoResponse
\* stands for "no call has returned"
NoResponse == [ok |-> FALSE, json |-> NullJson, err |-> ""]
HttpOk(json) == [ok |-> TRUE, json |-> json, err |-> ""]
HttpErr == [ok |-> FALSE, json |-> NullJson, err |-> "HTTPResponse"]

\* history records
Event(op, n, ok, data) == [op |-> op, n |-> n, ok |-> ok, data |-> data]
Returned(op, ok, err, msg, val) ==
    [op |-> op, ok |-> ok, err |-> err, msg |-> msg, val |-> val]
NoResult == Returned("", FALSE, "", NoMessage, "")
Ok(op, msg, val) == Returned(op, TRUE, "", msg, val)
Err(op, kind) == Returned(op, FALSE, kind, NoMessage, "")
\* a write of req answered ok by the socket, with the buffer size and the
\* responses read since the previous write
Written(req, ok) ==
    [req |-> req, ok |-> ok, buffered |-> Len(messages), answer |-> answer]
\* the window after one more write
Log(w) == IF sent = <<>> THEN <<w>> ELSE <<sent[Len(sent)], w>>

\* every message an envelope can carry
Universe == { ToMessage(EnvMsg(i, cur)) : i \in 1..MaxMsgs, cur \in Cursors }
\* the messages a decoded response carries
Decoded(response) ==
    [i \in 1..Len(Members(response)) |-> ToMessage(Members(response)[i])]
\* how often m occurs in seq
Count(seq, m) == Cardinality({ i \in 1..Len(seq) : seq[i] = m })
\* owed after a response was decoded / after message m was returned
OwedAfterDecode(response) ==
    [m \in Universe |-> owed[m] + Count(Decoded(response), m)]
OwedAfterReturn(m) == [owed EXCEPT ![m] = @ - 1]
\* outstanding after a poll write answered wok / after a decoded response
OutstandingAfterWrite(ch, wok) ==
    IF ~failed /\ ch # "" /\ wok THEN outstanding + 1 ELSE outstanding
OutstandingAfterResponse(decoded) ==
    IF ~failed /\ mode = "sub" /\ decoded THEN outstanding - 1 ELSE outstanding

\* the publish payload, as characters
Payloads == { <<"h", " ", "w">> }
\* utf8_percent_encode(message, DEFAULT_ENCODE_SET)
PercentEncode(message) ==
    [i \in 1..Len(message) |-> IF message[i] = " " THEN "%20" ELSE message[i]]

\* mutant: the poll always asks from the beginning of time
SubscribeRequestZero(ch, tt) ==
    [kind |-> "subscribe", subscribe_key |-> Key, channel |-> ch,
     timetoken |-> "0", message |-> <<>>, agent |-> SubscribeAgent]
\* the request of a subscribe poll
SubscribeRequest(ch, tt) ==
    [kind |-> "subscribe", subscribe_key |-> Key, channel |-> ch,
     timetoken |-> tt, message |-> <<>>, agent |-> SubscribeAgent]
\* the request of a publish
PublishRequest(ch, message) ==
    [kind |-> "publish", subscribe_key |-> Key, channel |-> ch,
     timetoken |-> "", message |-> PercentEncode(message), agent |-> PublishAgent]

Init ==
    /\ mode \in {"sub", "pub"}
    /\ pc = "start"
    /\ channel = ""
    /\ messages = <<>>
    /\ timetoken = ""
    /\ body_length = 0
    /\ lines = <<>>
    /\ hres = NoResponse
    /\ sent = <<>>
    /\ answer = <<>>
    /\ ret = NoResult
    /\ yielded = <<>>
    /\ io = <<>>
    /\ owed = [m \in Universe |-> 0]
    /\ outstanding = 0
    /\ failed = FALSE

\* ------------------------------------------------------------------ subscribe()
\* SubscribeClient::subscribe with the client's channel ch and timetoken tt
\* when the socket answers the write with wok: its result ...
subscribe(ch, tt, wok) ==
    IF ch = "" THEN "MissingChannel"
    ELSE IF wok THEN "Ok" ELSE "SubscribeWrite"
\* ... the writes it leaves behind ...
SubscribeSent(ch, tt, wok) ==
    IF ch = "" THEN sent
    ELSE Log(Written(SubscribeRequest(ch, tt), wok))
\* ... the responses read since the last write ...
SubscribeAnswer(ch) == IF ch = "" THEN answer ELSE <<>>
\* ... and its socket operations
SubscribeIo(ch, wok, trace) ==
    IF ch = "" THEN trace
    ELSE Append(trace, Event("write", 0, wok, <<>>))

\* ------------------------------------------------------------------ http_response
\* where http_response returns to
RetPc == IF mode = "sub" THEN "nm_resp" ELSE "pub_resp"

\* mutant: every Content-Length line is captured
CaptureEvery(bl, data) ==
    IF Contains(data)
    THEN LET second == Nth1(data) IN
         IF ~second.some THEN [ok |-> FALSE, n |-> bl]
         ELSE LET result == ParseUsize(second.tok) IN
              IF result.ok THEN [ok |-> TRUE, n |-> result.n]
              ELSE [ok |-> FALSE, n |-> bl]
    ELSE [ok |-> TRUE, n |-> bl]
\* the Content-Length capture of one loop iteration
Capture(bl, data) ==
    IF bl = 0 /\ Contains(data)
    THEN LET second == Nth1(data) IN
         IF ~second.some THEN [ok |-> FALSE, n |-> bl]
         ELSE LET result == ParseUsize(second.tok) IN
              IF result.ok THEN [ok |-> TRUE, n |-> result.n]
              ELSE [ok |-> FALSE, n |-> bl]
    ELSE [ok |-> TRUE, n |-> bl]

\* the end-of-headers test
EndOfHeaders(data) == data.len = 2

\* The lines the service may send next. A publish is answered with any
\* header of at most MaxLines lines and the blank line; a poll is answered
\* with at most one header line and the blank line.
Offered ==
    IF mode = "pub"
    THEN IF Len(lines) >= MaxLines THEN {BlankLine} ELSE Lines
    ELSE IF lines # <<>> THEN {BlankLine} ELSE Lines

\* what socket.readln may answer: an error or the next line
ReadlnOutcomes ==
    {[ok |-> FALSE, data |-> BlankLine]} \cup { [ok |-> TRUE, data |-> l] : l \in Offered }

\* one iteration of http_response's loop, up to the end-of-headers test
HrReadln ==
    /\ pc = "hr_loop"
    /\ \E r \in ReadlnOutcomes :
        /\ io' = Append(io, Event("readln", IF r.ok THEN r.data.len ELSE 0, r.ok, <<>>))
        /\ IF r.ok /\ Capture(body_length, r.data).ok
           THEN /\ body_length' = Capture(body_length, r.data).n
                /\ lines' = Append(lines, r.data)
                /\ pc' = IF EndOfHeaders(r.data) THEN "hr_body" ELSE "hr_loop"
                /\ UNCHANGED <<hres, answer>>
           ELSE /\ hres' = HttpErr
                /\ answer' = Append(answer, HttpErr)
                /\ lines' = IF r.ok THEN Append(lines, r.data) ELSE lines
                /\ pc' = RetPc
                /\ UNCHANGED body_length
    /\ UNCHANGED <<mode, channel, messages, timetoken, sent, ret, yielded, owed, outstanding, failed>>

\* the documents the service answers with: envelopes (and one other JSON
\* value) to a poll, arrays (and one other JSON value) to a publish
Wire ==
    IF mode = "pub"
    THEN Arrays \cup { e \in Envelopes : e.t = "15" /\ e.m = <<>> }
    ELSE Envelopes \cup { a \in Arrays : Len(a.a) = 1 }

\* what socket.read(n) may answer: an error, or the first n bytes of the
\* document on the wire
ReadOutcomes(n) ==
    {[ok |-> FALSE, data |-> <<>>]} \cup
    { [ok |-> TRUE, data |-> SubSeq(Encode(doc), 1, n)] :
        doc \in {d \in Wire : Len(Encode(d)) >= n} }

\* mutant: without a Content-Length the smallest document is asked for
BodyRequestDefault(bl) == IF bl = 0 THEN 3 ELSE bl
\* the bytes http_response asks the socket for at the end of the headers
BodyRequest(bl) == bl
\* mutant: the last byte read is dropped before decoding
PaylaodTrimmed(data) == SubSeq(data, 1, Len(data) - 1)
\* the bytes http_response hands to json::parse
Paylaod(data) == data

\* the end of the headers: the body read and the JSON decoding
HrBody ==
    /\ pc = "hr_body"
    /\ \E r \in ReadOutcomes(BodyRequest(body_length)) :
        LET parsed == JsonParse(Paylaod(r.data))
            result == IF r.ok /\ parsed.ok THEN HttpOk(parsed.json) ELSE HttpErr
            rd == Event("read", BodyRequest(body_length), r.ok, r.data)
            pe == Event("parse", Len(Paylaod(r.data)), parsed.ok, Paylaod(r.data))
        IN  /\ io' = IF r.ok THEN io \o <<rd, pe>> ELSE Append(io, rd)
            /\ hres' = result
            /\ answer' = Append(answer, result)
            /\ pc' = RetPc
            /\ outstanding' = OutstandingAfterResponse(result.ok)
    /\ UNCHANGED <<mode, channel, messages, timetoken, body_length, lines,
                   sent, ret, yielded, owed, failed>>

\* ------------------------------------------------------------------ SubscribeClient
\* the error new reports when its poll fails
NewError(kind) == "Subscribe"

\* mutant: the engine is returned whatever the poll's outcome
NewUnchecked ==
    /\ mode = "sub"
    /\ pc = "start"
    /\ \E ch \in Channels, wok \in BOOLEAN :
        /\ channel' = ch
        /\ messages' = <<>>
        /\ timetoken' = "0"
        /\ sent' = SubscribeSent(ch, "0", wok)
        /\ answer' = SubscribeAnswer(ch)
        /\ io' = SubscribeIo(ch, wok, <<>>)
        /\ outstanding' = OutstandingAfterWrite(ch, wok)
        /\ ret' = Ok("new", NoMessage, "")
        /\ pc' = "idle"
    /\ UNCHANGED <<mode, body_length, lines, hres, yielded, owed, failed>>

\* SubscribeClient::new
New ==
    /\ mode = "sub"
    /\ pc = "start"
    /\ \E ch \in Channels, wok \in BOOLEAN :
        /\ channel' = ch
        /\ messages' = <<>>
        /\ timetoken' = "0"
        /\ sent' = SubscribeSent(ch, "0", wok)
        /\ answer' = SubscribeAnswer(ch)
        /\ io' = SubscribeIo(ch, wok, <<>>)
        /\ outstanding' = OutstandingAfterWrite(ch, wok)
        /\ IF subscribe(ch, "0", wok) = "Ok"
           THEN /\ ret' = Ok("new", NoMessage, "")
                /\ pc' = "idle"
           ELSE /\ ret' = Err("new", NewError(subscribe(ch, "0", wok)))
                /\ pc' = "dropped"
    /\ UNCHANGED <<mode, body_length, lines, hres, yielded, owed, failed>>

\* the caller invokes next_message
NextMessageCall ==
    /\ pc = "idle"
    /\ pc' = "nm_entry"
    /\ io' = <<>>
    /\ UNCHANGED <<mode, channel, messages, timetoken, body_length, lines, hres,
                   sent, answer, ret, yielded, owed, outstanding, failed>>

\* mutant: the message is read but stays in the buffer
PopKeep(buffer) == [rest |-> buffer, message |-> buffer[Len(buffer)]]
\* mutant: the oldest message is taken
PopFirst(buffer) == [rest |-> Tail(buffer), message |-> Head(buffer)]
\* self.messages.pop()
Pop(buffer) ==
    [rest |-> SubSeq(buffer, 1, Len(buffer) - 1), message |-> buffer[Len(buffer)]]

\* next_message, buffer not empty: return the next saved message
NmPop ==
    /\ pc = "nm_entry"
    /\ messages # <<>>
    /\ messages' = Pop(messages).rest
    /\ ret' = Ok("next_message", Pop(messages).message, "")
    /\ yielded' = Append(yielded, Pop(messages).message)
    /\ owed' = OwedAfterReturn(Pop(messages).message)
    /\ pc' = "idle"
    /\ UNCHANGED <<mode, channel, timetoken, body_length, lines, hres, sent,
                   answer, io, outstanding, failed>>

\* mutant: the response is read whatever the buffer holds
NmCaptureUnguarded ==
    /\ pc = "nm_entry"
    /\ body_length' = 0
    /\ lines' = <<>>
    /\ pc' = "hr_loop"
    /\ UNCHANGED <<mode, channel, messages, timetoken, hres, sent, answer, ret,
                   yielded, io, owed, outstanding, failed>>

\* next_message, buffer empty: enter http_response
NmCapture ==
    /\ pc = "nm_entry"
    /\ messages = <<>>
    /\ body_length' = 0
    /\ lines' = <<>>
    /\ pc' = "hr_loop"
    /\ UNCHANGED <<mode, channel, messages, timetoken, hres, sent, answer, ret,
                   yielded, io, owed, outstanding, failed>>

\* mutant: a failed recovery poll replaces the first error
NmReadFailedSecondError ==
    /\ pc = "nm_resp"
    /\ ~hres.ok
    /\ \E wok \in BOOLEAN :
        /\ sent' = SubscribeSent(channel, timetoken, wok)
        /\ io' = SubscribeIo(channel, wok, io)
        /\ outstanding' = OutstandingAfterWrite(channel, wok)
        /\ ret' = IF subscribe(channel, timetoken, wok) = "Ok"
                  THEN Err("next_message", "SubscribeRead")
                  ELSE Err("next_message", subscribe(channel, timetoken, wok))
    /\ answer' = SubscribeAnswer(channel)
    /\ pc' = "idle"
    /\ failed' = TRUE
    /\ hres' = NoResponse
    /\ body_length' = 0
    /\ lines' = <<>>
    /\ UNCHANGED <<mode, channel, messages, timetoken, yielded, owed>>

\* mutant: a failed response read starts over from timetoken "0"
NmReadFailedResets ==
    /\ pc = "nm_resp"
    /\ ~hres.ok
    /\ \E wok \in BOOLEAN :
        /\ sent' = SubscribeSent(channel, "0", wok)
        /\ io' = SubscribeIo(channel, wok, io)
        /\ outstanding' = OutstandingAfterWrite(channel, wok)
    /\ timetoken' = "0"
    /\ answer' = SubscribeAnswer(channel)
    /\ ret' = Err("next_message", "SubscribeRead")
    /\ pc' = "idle"
    /\ failed' = TRUE
    /\ hres' = NoResponse
    /\ body_length' = 0
    /\ lines' = <<>>
    /\ UNCHANGED <<mode, channel, messages, yielded, owed>>

\* next_message, http_response failed: poll once more, return the first error
NmReadFailed ==
    /\ pc = "nm_resp"
    /\ ~hres.ok
    /\ \E wok \in BOOLEAN :
        /\ sent' = SubscribeSent(channel, timetoken, wok)
        /\ io' = SubscribeIo(channel, wok, io)
        /\ outstanding' = OutstandingAfterWrite(channel, wok)
    /\ answer' = SubscribeAnswer(channel)
    /\ ret' = Err("next_message", "SubscribeRead")
    /\ pc' = "idle"
    /\ failed' = TRUE
    /\ hres' = NoResponse
    /\ body_length' = 0
    /\ lines' = <<>>
    /\ UNCHANGED <<mode, channel, messages, timetoken, yielded, owed>>

\* the timetoken next_message saves from a response
SaveTimetoken(response) == TimeField(response)
\* mutant: the messages are pushed last to first
SaveMessagesReversed(buffer, response) ==
    buffer \o [i \in 1..Len(Members(response)) |->
                  ToMessage(Members(response)[Len(Members(response)) + 1 - i])]
\* mutant: the response's last message is not pushed
SaveMessagesDropsLast(buffer, response) ==
    buffer \o [i \in 1..(Len(Members(response)) - 1) |-> ToMessage(Members(response)[i])]
\* the buffer after next_message pushed the response's messages
SaveMessages(buffer, response) ==
    buffer \o [i \in 1..Len(Members(response)) |-> ToMessage(Members(response)[i])]

\* next_message, http_response succeeded: save the timetoken and the messages
NmSave ==
    /\ pc = "nm_resp"
    /\ hres.ok
    /\ timetoken' = SaveTimetoken(hres.json)
    /\ messages' = SaveMessages(messages, hres.json)
    /\ yielded' = <<>>
    /\ owed' = OwedAfterDecode(hres.json)
    /\ pc' = "nm_saved"
    /\ hres' = NoResponse
    /\ body_length' = 0
    /\ lines' = <<>>
    /\ UNCHANGED <<mode, channel, sent, answer, ret, io, outstanding, failed>>

\* mutant: after a failed follow-up write the nested invocation still runs
NmAskMoreServes ==
    /\ pc = "nm_saved"
    /\ \E wok \in BOOLEAN :
        /\ sent' = SubscribeSent(channel, timetoken, wok)
        /\ outstanding' = OutstandingAfterWrite(channel, wok)
        /\ io' = IF subscribe(channel, timetoken, wok) = "Ok"
                 THEN <<>> ELSE SubscribeIo(channel, wok, io)
    /\ pc' = "nm_entry"
    /\ answer' = SubscribeAnswer(channel)
    /\ UNCHANGED <<mode, channel, messages, timetoken, body_length, lines, hres,
                   ret, yielded, owed, failed>>

\* mutant: a failed follow-up write empties the buffer
NmAskMoreDrops ==
    /\ pc = "nm_saved"
    /\ \E wok \in BOOLEAN :
        /\ sent' = SubscribeSent(channel, timetoken, wok)
        /\ outstanding' = OutstandingAfterWrite(channel, wok)
        /\ IF subscribe(channel, timetoken, wok) = "Ok"
           THEN /\ pc' = "nm_entry"
                /\ io' = <<>>
                /\ UNCHANGED <<ret, failed, messages>>
           ELSE /\ ret' = Err("next_message", "SubscribeRead")
                /\ io' = SubscribeIo(channel, wok, io)
                /\ pc' = "idle"
                /\ failed' = TRUE
                /\ messages' = <<>>
    /\ answer' = SubscribeAnswer(channel)
    /\ UNCHANGED <<mode, channel, timetoken, body_length, lines, hres,
                   yielded, owed>>

\* mutant: an envelope without messages ends the invocation with an error
NmAskMoreStops ==
    /\ pc = "nm_saved"
    /\ IF messages = <<>>
       THEN /\ ret' = Err("next_message", "SubscribeRead")
            /\ pc' = "idle"
            /\ failed' = TRUE
            /\ UNCHANGED <<sent, answer, io, outstanding>>
       ELSE \E wok \in BOOLEAN :
            /\ sent' = SubscribeSent(channel, timetoken, wok)
            /\ outstanding' = OutstandingAfterWrite(channel, wok)
            /\ answer' = SubscribeAnswer(channel)
            /\ IF subscribe(channel, timetoken, wok) = "Ok"
               THEN /\ pc' = "nm_entry"
                    /\ io' = <<>>
                    /\ UNCHANGED <<ret, failed>>
               ELSE /\ ret' = Err("next_message", "SubscribeRead")
                    /\ io' = SubscribeIo(channel, wok, io)
                    /\ pc' = "idle"
                    /\ failed' = TRUE
    /\ UNCHANGED <<mode, channel, messages, timetoken, body_length, lines, hres,
                   yielded, owed>>

\* mutant: the follow-up poll is written only when no message was saved
NmAskMoreLazy ==
    /\ pc = "nm_saved"
    /\ IF messages # <<>>
       THEN /\ pc' = "nm_entry"
            /\ io' = <<>>
            /\ UNCHANGED <<sent, answer, ret, outstanding, failed>>
       ELSE \E wok \in BOOLEAN :
            /\ sent' = SubscribeSent(channel, timetoken, wok)
            /\ outstanding' = OutstandingAfterWrite(channel, wok)
            /\ answer' = SubscribeAnswer(channel)
            /\ IF subscribe(channel, timetoken, wok) = "Ok"
               THEN /\ pc' = "nm_entry"
                    /\ io' = <<>>
                    /\ UNCHANGED <<ret, failed>>
               ELSE /\ ret' = Err("next_message", "SubscribeRead")
                    /\ io' = SubscribeIo(channel, wok, io)
                    /\ pc' = "idle"
                    /\ failed' = TRUE
    /\ UNCHANGED <<mode, channel, messages, timetoken, body_length, lines, hres,
                   yielded, owed>>

\* next_message: ask for more messages, then serve the buffer in a nested
\* invocation
NmAskMore ==
    /\ pc = "nm_saved"
    /\ \E wok \in BOOLEAN :
        /\ sent' = SubscribeSent(channel, timetoken, wok)
        /\ outstanding' = OutstandingAfterWrite(channel, wok)
        /\ IF subscribe(channel, timetoken, wok) = "Ok"
           THEN /\ pc' = "nm_entry"
                /\ io' = <<>>
                /\ UNCHANGED <<ret, failed>>
           ELSE /\ ret' = Err("next_message", "SubscribeRead")
                /\ io' = SubscribeIo(channel, wok, io)
                /\ pc' = "idle"
                /\ failed' = TRUE
    /\ answer' = SubscribeAnswer(channel)
    /\ UNCHANGED <<mode, channel, messages, timetoken, body_length, lines, hres,
                   yielded, owed>>

\* ------------------------------------------------------------------ PublishClient
\* PublishClient::new
PubNew ==
    /\ mode = "pub"
    /\ pc = "start"
    /\ ret' = Ok("new", NoMessage, "")
    /\ pc' = "pub_idle"
    /\ UNCHANGED <<mode, channel, messages, timetoken, body_length, lines,
                   hres, sent, answer, yielded, io, owed, outstanding, failed>>

\* mutant: the outcome of the write is not looked at
PublishUnchecked ==
    /\ pc = "pub_idle"
    /\ \E message \in Payloads, wok \in BOOLEAN :
        /\ sent' = Log(Written(PublishRequest("room", message), wok))
        /\ io' = <<Event("write", 0, wok, <<>>)>>
    /\ pc' = "hr_loop"
    /\ answer' = <<>>
    /\ body_length' = 0
    /\ lines' = <<>>
    /\ UNCHANGED <<mode, channel, messages, timetoken, hres, ret, yielded, owed, outstanding, failed>>

\* publish: build and write the request; on success enter http_response
Publish ==
    /\ pc = "pub_idle"
    /\ \E message \in Payloads, wok \in BOOLEAN :
        /\ sent' = Log(Written(PublishRequest("room", message), wok))
        /\ io' = <<Event("write", 0, wok, <<>>)>>
        /\ IF wok
           THEN /\ pc' = "hr_loop"
                /\ UNCHANGED ret
           ELSE /\ ret' = Err("publish", "PublishWrite")
                /\ pc' = "pub_idle"
    /\ answer' = <<>>
    /\ body_length' = 0
    /\ lines' = <<>>
    /\ UNCHANGED <<mode, channel, messages, timetoken, hres, yielded, owed, outstanding, failed>>

\* mutant: http_response's error is passed on as it is
PubReturnPropagate ==
    /\ pc = "pub_resp"
    /\ ret' = IF hres.ok THEN Ok("publish", NoMessage, Index2(hres.json))
              ELSE Err("publish", hres.err)
    /\ pc' = "pub_idle"
    /\ hres' = NoResponse
    /\ body_length' = 0
    /\ lines' = <<>>
    /\ UNCHANGED <<mode, channel, messages, timetoken, sent, answer, yielded, io,
                   owed, outstanding, failed>>

\* publish: map http_response's outcome and return
PubReturn ==
    /\ pc = "pub_resp"
    /\ ret' = IF hres.ok THEN Ok("publish", NoMessage, Index2(hres.json))
              ELSE Err("publish", "PublishResponse")
    /\ pc' = "pub_idle"
    /\ hres' = NoResponse
    /\ body_length' = 0
    /\ lines' = <<>>
    /\ UNCHANGED <<mode, channel, messages, timetoken, sent, answer, yielded, io,
                   owed, outstanding, failed>>

\* ------------------------------------------------------------------ specification
Next ==
    \/ New
    \/ NextMessageCall
    \/ NmPop
    \/ NmCapture
    \/ HrReadln
    \/ HrBody
    \/ NmReadFailed
    \/ NmSave
    \/ NmAskMore
    \/ PubNew
    \/ Publish
    \/ PubReturn

Spec == Init /\ [][Next]_vars

\* A called operation runs to its return: its calls are sequential and its
\* socket operations block until they answer, with data or with an error.
Running ==
    \/ NmPop
    \/ NmCapture
    \/ HrReadln
    \/ HrBody
    \/ NmReadFailed
    \/ NmSave
    \/ NmAskMore
    \/ PubReturn
FairSpec == Spec /\ WF_vars(Running)

\* ------------------------------------------------------------------ properties
Last(seq) == seq[Len(seq)]
Reverse(seq) == [i \in 1..Len(seq) |-> seq[Len(seq) + 1 - i]]
IsPoll(w) == w.req.kind = "subscribe"
\* http_response is running or has just returned to next_message
Reading == pc \in {"hr_loop", "hr_body", "nm_resp"}
\* the write w directly follows a successfully decoded response
FollowsEnvelope(w) == Len(w.answer) = 1 /\ w.answer[1].ok
\* the messages of the envelope decoded just before the write w
EnvelopeOf(w) == Members(w.answer[1].json)

\* C1 (as claimed): every poll that reaches the transport is written while
\* the buffer is empty.
C1_EmptyAtEveryPoll ==
    \A i \in 1..Len(sent) : (IsPoll(sent[i]) /\ sent[i].ok) => sent[i].buffered = 0

\* C1 (amended): a poll is written while the buffer is non-empty only as the
\* follow-up poll that directly follows a decoded envelope, the buffer then
\* holding exactly that envelope's messages; the construction poll and the
\* recovery poll are written with an empty buffer, and no response is read
\* while the buffer is non-empty.
C1_PollOnlyAfterEnvelope ==
    /\ \A i \in 1..Len(sent) :
          (IsPoll(sent[i]) /\ sent[i].buffered > 0) =>
              /\ FollowsEnvelope(sent[i])
              /\ sent[i].buffered = Len(EnvelopeOf(sent[i]))
    /\ (mode = "sub" /\ Reading) => messages = <<>>

\* C1 witness: a follow-up poll was written over a buffer of two messages,
\* and a later response is being read with the buffer drained.
C1_Witness ==
    /\ mode = "sub"
    /\ Len(sent) = 2
    /\ sent[2].buffered = 2
    /\ pc = "hr_loop"

\* the cursor returned in the response read before the write w ("none" when
\* no response was decoded)
ReturnedCursor(w) ==
    IF FollowsEnvelope(w) THEN TimeField(w.answer[1].json) ELSE "none"

\* C2 (as claimed): the first poll carries "0" and every later poll carries
\* the cursor returned in the response to the poll before it (both polls
\* written successfully).
C2_CursorOfPreviousResponse ==
    mode = "sub" =>
        /\ Len(sent) = 1 => sent[1].req.timetoken = "0"
        /\ (Len(sent) = 2 /\ sent[1].ok /\ sent[2].ok) =>
              sent[2].req.timetoken = ReturnedCursor(sent[2])

\* C2 (amended), every attempted poll write counted as a poll: the first
\* poll carries "0"; exactly one response is read between two consecutive
\* polls; poll N+1 carries the cursor of the response
\* to poll N when that response was read and decoded, and the timetoken of
\* poll N again when reading it failed.
C2_CursorChain ==
    mode = "sub" =>
        /\ Len(sent) = 1 => (sent[1].req.timetoken = "0" /\ sent[1].answer = <<>>)
        /\ Len(sent) = 2 =>
              /\ Len(sent[2].answer) = 1
              /\ sent[2].req.timetoken =
                    IF sent[2].answer[1].ok
                    THEN TimeField(sent[2].answer[1].json)
                    ELSE sent[1].req.timetoken

\* C2 witness: a poll carrying "16" follows a poll carrying "15", and a
\* failed read is followed by a poll repeating "16".
C2_Witness ==
    /\ mode = "sub"
    /\ Len(sent) = 2
    /\ sent[1].req.timetoken = "15"
    /\ sent[2].req.timetoken = "16"
    /\ sent[2].answer[1].ok

C2_WitnessFailedRead ==
    /\ mode = "sub"
    /\ Len(sent) = 2
    /\ sent[1].req.timetoken = "16"
    /\ sent[2].req.timetoken = "16"
    /\ ~sent[2].answer[1].ok

\* C3: right after next_message decoded a valid envelope with k messages
\* (before the follow-up poll and before any pop) the buffer holds exactly
\* those k messages in envelope order and the timetoken is the envelope's
\* t.t.
C3_SavedEnvelope ==
    (pc = "nm_saved" /\ Last(answer).json \in Envelopes) =>
        LET env == Last(answer).json IN
        /\ Len(messages) = Len(env.m)
        /\ \A i \in 1..Len(env.m) :
              /\ messages[i].channel = env.m[i].c
              /\ messages[i].data = env.m[i].d
              /\ messages[i].id = env.m[i].p
        /\ timetoken = env.t

\* C3 witness: an envelope of two messages was just saved.
C3_Witness ==
    /\ pc = "nm_saved"
    /\ Last(answer).json \in Envelopes
    /\ Len(Last(answer).json.m) = 2
    /\ timetoken = "16"

\* C4 (as claimed): once a poll has been written after a decoded envelope
\* of k messages, all k messages have been yielded.
C4_YieldedBeforePoll ==
    (mode = "sub" /\ sent # <<>> /\ FollowsEnvelope(Last(sent)) /\ Last(sent).ok) =>
        Len(yielded) = Len(EnvelopeOf(Last(sent)))

\* C4 (amended): the follow-up poll is written right after the envelope is
\* decoded, before any of its k messages is returned; from then on no poll
\* is written and no response is read until next_message has yielded exactly
\* those k messages (in pop order): the yielded messages and the buffer
\* together are the envelope's messages, a response is read only once all k
\* are yielded, and every poll after the first follows a response read.
C4_DrainBeforeNextPoll ==
    mode = "sub" =>
        /\ Len(sent) = 2 => Len(sent[2].answer) = 1
        /\ (sent # <<>> /\ FollowsEnvelope(Last(sent)) /\ pc # "nm_saved") =>
              /\ messages \o Reverse(yielded) =
                    [i \in 1..Len(EnvelopeOf(Last(sent))) |->
                        ToMessage(EnvelopeOf(Last(sent))[i])]
              /\ Reading => Len(yielded) = Len(EnvelopeOf(Last(sent)))

\* C4 witness: both messages of an envelope were yielded after its
\* follow-up poll and the next response is about to be read.
C4_Witness ==
    /\ mode = "sub"
    /\ sent # <<>>
    /\ FollowsEnvelope(Last(sent))
    /\ Last(sent).ok
    /\ Len(yielded) = 2
    /\ pc = "hr_loop"

\* C5 (as claimed): new with an empty channel returns MissingChannel to the
\* caller and writes nothing.
C5_MissingChannelReturned ==
    (mode = "sub" /\ ret.op = "new" /\ channel = "") =>
        /\ ~ret.ok
        /\ ret.err = "MissingChannel"
        /\ sent = <<>>
        /\ io = <<>>

\* C6: a publish whose write fails returns PublishWrite and reads nothing:
\* the failed write is the only socket operation of the call.
C6_PublishWriteNoRead ==
    (mode = "pub" /\ sent # <<>> /\ ~Last(sent).ok) =>
        /\ ret = Err("publish", "PublishWrite")
        /\ pc = "pub_idle"
        /\ io = <<Event("write", 0, FALSE, <<>>)>>
        /\ answer = <<>>

\* C6 witness: a publish has failed on its write.
C6_Witness ==
    /\ mode = "pub"
    /\ sent # <<>>
    /\ ~Last(sent).ok
    /\ ret.err = "PublishWrite"

\* the response read after the last write failed and its operation returned
PublishReadFailed ==
    /\ mode = "pub"
    /\ pc = "pub_idle"
    /\ sent # <<>>
    /\ Last(sent).ok
    /\ answer # <<>>
    /\ ~Last(answer).ok
NextMessageReadFailed ==
    /\ mode = "sub"
    /\ pc = "idle"
    /\ sent # <<>>
    /\ Len(Last(sent).answer) = 1
    /\ ~Last(sent).answer[1].ok

\* C7: when the response read fails after a successful write, publish
\* returns PublishResponse and next_message returns SubscribeRead; no
\* operation ever returns HTTPResponse.
C7_ReadFailureKinds ==
    /\ ret.err # "HTTPResponse"
    /\ PublishReadFailed => ret = Err("publish", "PublishResponse")
    /\ NextMessageReadFailed => ret = Err("next_message", "SubscribeRead")

\* C7 witnesses: a publish whose response failed JSON decoding; a
\* next_message whose response read failed after a successful poll.
C7_Witness ==
    /\ PublishReadFailed
    /\ Last(io).op = "parse"
    /\ ret.err = "PublishResponse"

C7_WitnessSubscribe ==
    /\ NextMessageReadFailed
    /\ Len(sent) = 2
    /\ sent[1].ok
    /\ ret.err = "SubscribeRead"

\* C8: a next_message invocation that finds the buffer empty and whose
\* response read fails makes exactly one recovery poll, as its last socket
\* operation, and returns SubscribeRead whether that poll's write succeeded
\* or not.
C8_OneRecoveryPoll ==
    NextMessageReadFailed =>
        /\ ret = Err("next_message", "SubscribeRead")
        /\ messages = <<>>
        /\ io # <<>>
        /\ Last(io) = Event("write", 0, Last(sent).ok, <<>>)
        /\ \A i \in 1..(Len(io) - 1) : io[i].op \in {"readln", "read", "parse"}
        /\ Cardinality({ i \in 1..Len(io) : io[i].op = "readln" }) >= 1

\* C8 witness: the read failed, the recovery poll's write failed too, and
\* the caller got SubscribeRead.
C8_Witness ==
    /\ NextMessageReadFailed
    /\ ~Last(sent).ok
    /\ ret.err = "SubscribeRead"

\* http_response has returned after reading the blank line
HeadersEnded == pc = RetPc /\ lines # <<>> /\ Last(lines) = BlankLine
LengthLines == { i \in 1..Len(lines) : Contains(lines[i]) }
BodyReads == { i \in 1..Len(io) : io[i].op = "read" }

\* C9: when the headers hold no Content-Length line, or one whose value is
\* 0, before the blank line, body_length is still 0, the one body read asks
\* for 0 bytes, and http_response returns Err(HTTPResponse).
C9_NoLengthIsTypedError ==
    (/\ HeadersEnded
     /\ \/ LengthLines = {}
        \/ /\ Cardinality(LengthLines) = 1
           /\ \A i \in LengthLines : lines[i].tok = Numeral(0)) =>
        /\ body_length = 0
        /\ Cardinality(BodyReads) = 1
        /\ \A i \in BodyReads : io[i].n = 0 /\ io[i].data = <<>>
        /\ hres = HttpErr

\* C9 witnesses: "Content-Length: 0" and the blank line, the empty body was
\* read and failed to decode; no Content-Length at all.
C9_Witness ==
    /\ HeadersEnded
    /\ lines = <<LengthLine(Numeral(0)), BlankLine>>
    /\ Last(io).op = "parse"
    /\ hres = HttpErr

C9_WitnessNoHeader ==
    /\ HeadersEnded
    /\ lines = <<OtherLine, BlankLine>>
    /\ Last(io).op = "parse"

\* the length the headers announce: the number on the first Content-Length
\* line that carries a positive number, 0 when there is none
Announced ==
    LET P == { i \in LengthLines : lines[i].tok.txt = "digits" /\ lines[i].tok.n > 0 }
    IN  IF P = {} THEN 0
        ELSE lines[CHOOSE i \in P : \A j \in P : i <= j].tok.n

\* C10: at the first line of length 2 http_response makes exactly one body
\* read, asking for the announced number of bytes, hands exactly the bytes
\* read to the JSON decoder, and returns without another read.
C10_ExactBody ==
    HeadersEnded =>
        /\ \A i \in 1..(Len(lines) - 1) : lines[i].len # 2
        /\ Cardinality({ i \in 1..Len(io) : io[i].op = "readln" }) = Len(lines)
        /\ Cardinality(BodyReads) = 1
        /\ \A i \in BodyReads :
              /\ io[i].n = Announced
              /\ io[i].n = body_length
              /\ IF io[i].ok
                 THEN /\ i = Len(io) - 1
                      /\ Len(io[i].data) = io[i].n
                      /\ io[i + 1].op = "parse"
                      /\ io[i + 1].data = io[i].data
                      /\ hres.ok = io[i + 1].ok
                 ELSE /\ i = Len(io)
                      /\ hres = HttpErr

\* C10 witness: five bytes were announced, read and decoded.
C10_Witness ==
    /\ HeadersEnded
    /\ body_length = 5
    /\ hres.ok
    /\ Len(Last(io).data) = 5

\* new has returned and the caller has not called next_message yet
Constructed == mode = "sub" /\ ret.op = "new" /\ pc \in {"idle", "dropped"}
\* what new leaves behind after one poll whose write was answered wok
AfterOnePoll(wok) ==
    /\ sent = <<Written(SubscribeRequest(channel, "0"), wok)>>
    /\ io = <<Event("write", 0, wok, <<>>)>>
    /\ answer = <<>>
    /\ hres = NoResponse
    /\ IF wok
       THEN /\ ret = Ok("new", NoMessage, "")
            /\ pc = "idle"
            /\ messages = <<>>
            /\ timetoken = "0"
       ELSE /\ ret = Err("new", "Subscribe")
            /\ pc = "dropped"

\* C11 as stated: whatever the channel, new makes exactly one write, which
\* carries timetoken "0", and no read; it returns an engine with an empty
\* buffer and cursor "0" when the write succeeded and no engine otherwise.
C11_AlwaysOneWrite ==
    Constructed => \E wok \in BOOLEAN : AfterOnePoll(wok)

\* C11 amended: with a non-empty channel new makes exactly one write, which
\* carries timetoken "0", and no read, and returns an engine with an empty
\* buffer and cursor "0" exactly when that write succeeded; with an empty
\* channel its one subscribe() call writes nothing and new returns no engine.
C11_OnePollAtConstruction ==
    Constructed =>
        IF channel # ""
        THEN \E wok \in BOOLEAN : AfterOnePoll(wok)
        ELSE /\ sent = <<>>
             /\ io = <<>>
             /\ ret = Err("new", "Subscribe")
             /\ pc = "dropped"

\* C11 witness: new wrote its poll, the write failed, no engine was returned.
C11_Witness ==
    /\ Constructed
    /\ channel = "demo"
    /\ Len(sent) = 1
    /\ ~sent[1].ok
    /\ pc = "dropped"

\* C11 witness: new wrote its poll and returned the engine.
C11_WitnessEngine ==
    /\ Constructed
    /\ Len(sent) = 1
    /\ sent[1].ok
    /\ pc = "idle"

\* the last write was a follow-up poll and it failed
FollowUpFailed ==
    /\ mode = "sub"
    /\ sent # <<>>
    /\ FollowsEnvelope(Last(sent))
    /\ ~Last(sent).ok
\* ... and the invocation that wrote it has just returned
FollowUpFailedReturn ==
    /\ FollowUpFailed
    /\ pc = "idle"
    /\ io # <<>>
    /\ Last(io) = Event("write", 0, FALSE, <<>>)

\* C12: when the follow-up poll's write fails after an envelope with k
\* messages was decoded, that next_message invocation returns SubscribeRead,
\* has returned no message, and all k messages are in the buffer when it
\* returns.
C12_FollowUpFailureKeepsBuffer ==
    FollowUpFailedReturn =>
        /\ ret = Err("next_message", "SubscribeRead")
        /\ yielded = <<>>
        /\ messages = Decoded(Last(sent).answer[1].json)
        /\ Last(sent).buffered = Len(messages)

\* C12 witness: two messages were buffered, the follow-up write failed and
\* the invocation returned the error with both still buffered.
C12_Witness ==
    /\ FollowUpFailedReturn
    /\ Len(messages) = 2
    /\ ret.err = "SubscribeRead"

\* C13 as stated: once the follow-up poll's write has failed, no later
\* next_message invocation returns a message of the envelope decoded before
\* it.
C13_BufferedUnreachable ==
    FollowUpFailed => yielded = <<>>

\* C13 amended: after a failed follow-up write the envelope's messages stay
\* in the buffer; the invocations that follow return them, last appended
\* first, without any socket operation, and the next response is read only
\* when all of them have been returned.
C13_BufferedServedLater ==
    (FollowUpFailed /\ pc # "nm_saved") =>
        /\ messages \o Reverse(yielded) = Decoded(Last(sent).answer[1].json)
        /\ (pc = "idle" /\ io = <<>>) =>
              /\ yielded # <<>>
              /\ ret = Ok("next_message", Last(yielded), "")
        /\ Reading => messages = <<>>

\* C13 witness: the follow-up write failed with two messages buffered and
\* two later invocations have returned both.
C13_Witness ==
    /\ FollowUpFailed
    /\ pc = "idle"
    /\ Len(yielded) = 2
    /\ messages = <<>>
    /\ ret.ok

\* C14: an invocation of next_message that finds the buffer non-empty
\* returns Ok with the last appended message, leaves the buffer one shorter
\* (the other messages in place), performs no socket operation and leaves
\* the cursor unchanged.
C14_PopLastNoIo ==
    [][(pc = "nm_entry" /\ messages # <<>>) =>
          /\ pc' = "idle"
          /\ ret' = Ok("next_message", messages[Len(messages)], "")
          /\ messages' = SubSeq(messages, 1, Len(messages) - 1)
          /\ Len(messages') = Len(messages) - 1
          /\ io' = io
          /\ sent' = sent
          /\ answer' = answer
          /\ timetoken' = timetoken]_vars

\* C14 witness: of two buffered messages the second was returned first, the
\* first is still buffered, and the invocation made no socket operation.
C14_Witness ==
    /\ mode = "sub"
    /\ pc = "idle"
    /\ io = <<>>
    /\ Len(messages) = 1
    /\ Len(yielded) = 1
    /\ messages[1].data = "a"
    /\ ret = Ok("next_message", yielded[1], "")
    /\ ret.msg.data = "b"

\* http_response is running or has just returned
InResponse == pc \in {"hr_loop", "hr_body", RetPc} /\ lines # <<>>
\* http_response returned an error from the capture of the last line read
CaptureFailed ==
    /\ pc = RetPc
    /\ io # <<>>
    /\ Last(io).op = "readln"
    /\ Last(io).ok
FirstLengthLine == CHOOSE i \in LengthLines : \A j \in LengthLines : i <= j

\* C15 as stated: with two or more Content-Length lines read, body_length is
\* the number on the first of them, whatever that number is, and no later
\* one has made http_response fail.
C15_FirstOccurrenceOnly ==
    (InResponse /\ Cardinality(LengthLines) >= 2) =>
        /\ body_length = lines[FirstLengthLine].tok.n
        /\ ~CaptureFailed

\* C15 amended: body_length is the number on the first Content-Length line
\* that carries a non-zero number; every Content-Length line after that one
\* is ignored, and a Content-Length line makes http_response fail only when
\* every Content-Length line before it carried 0.
C15_FirstNonZeroOnly ==
    InResponse =>
        /\ body_length = Announced
        /\ (CaptureFailed /\ LengthLines # {}) =>
              /\ Len(lines) \in LengthLines
              /\ \A i \in LengthLines \ {Len(lines)} : lines[i].tok = Numeral(0)

\* C15 witnesses: a second Content-Length line that is no number was
\* ignored after a first one of 5; after a first one of 0 the second one,
\* of 5, set body_length.
C15_Witness ==
    /\ HeadersEnded
    /\ lines = <<LengthLine(Numeral(5)), LengthLine(WordToken), BlankLine>>
    /\ body_length = 5
    /\ hres.ok

C15_WitnessZeroFirst ==
    /\ HeadersEnded
    /\ lines = <<LengthLine(Numeral(0)), LengthLine(Numeral(5)), BlankLine>>
    /\ body_length = 5
    /\ hres.ok

\* C16: from construction on, the cursor changes only in the step in which
\* next_message takes a successfully decoded response, and then to that
\* response's time field; a step that handles a failed response read
\* (recovery poll included) leaves cursor and buffer unchanged; a buffer
\* pop and every step that writes a poll leave the cursor unchanged.
C16_CursorFrame ==
    [][pc # "start" =>
          /\ timetoken' # timetoken =>
                /\ pc = "nm_resp"
                /\ hres.ok
                /\ timetoken' = TimeField(hres.json)
          /\ (pc = "nm_resp" /\ ~hres.ok) =>
                /\ timetoken' = timetoken
                /\ messages' = messages
          /\ (pc = "nm_entry" /\ messages # <<>>) => timetoken' = timetoken
          /\ sent' # sent => timetoken' = timetoken]_vars

\* C16 witness: after an envelope moved the cursor, a response read failed
\* and the recovery poll was written; the cursor is still the envelope's.
C16_Witness ==
    /\ NextMessageReadFailed
    /\ Len(sent) = 2
    /\ FollowsEnvelope(sent[1])
    /\ timetoken = ReturnedCursor(sent[1])
    /\ timetoken \in Cursors
    /\ sent[2].req.timetoken = timetoken
    /\ messages = <<>>

\* an invocation of next_message is running
InCall == mode = "sub" /\ pc \in {"nm_entry", "hr_loop", "hr_body", "nm_resp", "nm_saved"}
\* ... and has just decoded an envelope without messages
ZeroEnvelope == mode = "sub" /\ pc = "nm_saved" /\ messages = <<>>

\* C17: a running next_message returns only by handing out a buffered
\* message, after a failed response read, or after a failed poll write; a
\* decoded envelope without messages is followed by another poll and, when
\* that write succeeds, by another nested invocation that reads the next
\* response, however many such envelopes came before; and a running
\* invocation always goes on to return or to decode one more envelope
\* without messages.
C17_ReturnsUnlessZeroForever ==
    /\ [][(InCall /\ pc' = "idle") =>
              \/ pc = "nm_entry" /\ messages # <<>> /\ ret'.ok
              \/ pc = "nm_resp" /\ ~hres.ok /\ ~ret'.ok
              \/ pc = "nm_saved" /\ ~Last(sent').ok /\ ~ret'.ok]_vars
    /\ [][ZeroEnvelope =>
              /\ Len(sent') = 2
              /\ sent'[1] = Last(sent)
              /\ IsPoll(Last(sent'))
              /\ Last(sent').ok => (pc' = "nm_entry" /\ messages' = <<>>)]_vars
    /\ [][(mode = "sub" /\ pc = "nm_entry" /\ messages = <<>>) => pc' = "hr_loop"]_vars
    /\ InCall ~> (pc = "idle" \/ ZeroEnvelope)

\* C17 witness: inside one invocation a second envelope without messages
\* was decoded after the follow-up poll of the first one was written.
C17_Witness ==
    /\ ZeroEnvelope
    /\ Last(answer).ok
    /\ Len(sent) = 2
    /\ Last(sent).ok
    /\ FollowsEnvelope(Last(sent))
    /\ EnvelopeOf(Last(sent)) = <<>>
    /\ Last(sent).answer[1].json \in Envelopes
    /\ Last(answer).json \in Envelopes

\* "every invocation of next_message returns": false under FairSpec, the
\* loop of envelopes without messages never returns
C17_AlwaysReturns == InCall ~> pc = "idle"

\* C18: in every state each message is in the buffer exactly as often as it
\* was decoded from a response and not yet returned (the messages returned
\* so far and the buffered ones together are the decoded ones, as
\* multisets), and every Ok result of next_message is a message that was
\* decoded and not returned before, and counts as returned once.
C18_NoLossNoDuplication ==
    /\ [](mode = "sub" => \A m \in Universe : owed[m] = Count(messages, m))
    /\ [][(mode = "sub" /\ pc = "nm_entry" /\ pc' = "idle") =>
              /\ ret'.ok
              /\ ret'.msg \in Universe
              /\ owed[ret'.msg] >= 1
              /\ owed' = [owed EXCEPT ![ret'.msg] = @ - 1]]_vars
    /\ [][(mode = "sub" /\ ret' # ret /\ ret'.op = "next_message" /\ ret'.ok) =>
              (pc = "nm_entry" /\ pc' = "idle")]_vars

\* C18 witness: of two decoded messages one was returned after a failed
\* follow-up write and the other one is still buffered and owed.
C18_Witness ==
    /\ FollowUpFailed
    /\ pc = "idle"
    /\ Len(yielded) = 1
    /\ Len(messages) = 1
    /\ messages[1] # yielded[1]
    /\ owed[messages[1]] = 1
    /\ owed[yielded[1]] = 0
    /\ ret = Ok("next_message", yielded[1], "")

\* the messages of the envelope the buffer was last filled from: those of
\* the response just decoded, or of the one decoded before the last write
LastDecoded ==
    IF pc = "nm_saved" THEN Decoded(Last(answer).json)
    ELSE IF sent # <<>> /\ FollowsEnvelope(Last(sent))
         THEN Decoded(Last(sent).answer[1].json)
         ELSE <<>>

\* C19: a response is read only while the buffer is empty and no decoded
\* message is still to be returned; the buffer always is an initial part of
\* the messages of the one envelope it was last filled from, and the
\* messages returned since are the rest of that envelope, last first. So
\* all messages of one envelope are returned before the next envelope is
\* read, and only the order within an envelope is reversed.
C19_OneEnvelopeAtATime ==
    mode = "sub" =>
        /\ Reading =>
              /\ messages = <<>>
              /\ \A m \in Universe : owed[m] = 0
        /\ Len(messages) <= Len(LastDecoded)
        /\ messages = SubSeq(LastDecoded, 1, Len(messages))
        /\ (pc # "nm_saved" /\ LastDecoded # <<>>) =>
              Reverse(yielded) = SubSeq(LastDecoded, Len(messages) + 1, Len(LastDecoded))
        /\ pc = "nm_saved" => \A m \in Universe : owed[m] = Count(LastDecoded, m)

\* C19 witness: an envelope with two messages and cursor "15" was decoded,
\* both were returned, and the buffer now holds exactly the two messages of
\* the next envelope, with cursor "16".
C19_Witness ==
    /\ mode = "sub"
    /\ pc = "nm_saved"
    /\ Last(sent).ok
    /\ FollowsEnvelope(Last(sent))
    /\ Len(EnvelopeOf(Last(sent))) = 2
    /\ ReturnedCursor(Last(sent)) = "15"
    /\ timetoken = "16"
    /\ Len(messages) = 2
    /\ \A i \in 1..2 : messages[i].id = "16"

\* C20: on a constructed engine, as long as no next_message invocation has
\* returned an error, the successfully written polls outnumber the decoded
\* responses by exactly one whenever the caller has control, and by one or
\* zero inside an invocation: by one while a response is awaited or read
\* (its request was written before), by zero from the decoding of a
\* response until the follow-up poll is written (no request is written
\* while another is unanswered).
C20_OnePollOutstanding ==
    (mode = "sub" /\ ~failed /\ pc \notin {"start", "dropped"}) =>
        /\ pc = "idle" => outstanding = 1
        /\ pc \in {"nm_entry", "hr_loop", "hr_body"} => outstanding = 1
        /\ pc = "nm_resp" => outstanding = IF hres.ok THEN 0 ELSE 1
        /\ pc = "nm_saved" => outstanding = 0
        /\ sent # <<>>
        /\ pc \in {"idle", "nm_entry", "hr_loop", "hr_body"} =>
              (IsPoll(Last(sent)) /\ Last(sent).ok)

\* C20 witness: after construction, one decoded envelope, its follow-up
\* poll and one returned message, no error was returned and one poll is
\* outstanding.
C20_Witness ==
    /\ mode = "sub"
    /\ pc = "idle"
    /\ ~failed
    /\ Len(sent) = 2
    /\ sent[1].ok
    /\ sent[2].ok
    /\ FollowsEnvelope(sent[2])
    /\ ret.op = "next_message"
    /\ ret.ok
    /\ outstanding = 1

====
